---- MODULE Spec2Model ----
(***************************************************************************)
(* The Game of Life engine (engine/main.go and its distributor) as a state *)
(* machine.  The engine is an RPC server: every call is served on its own  *)
(* goroutine, the package-level variables are shared and unsynchronised,   *)
(* and distributor runs inside the goroutine of the Start call.  One step  *)
(* of the model is one statement that reads or writes shared state.        *)
(***************************************************************************)
EXTENDS Integers, Sequences, FiniteSets, TLC

\* Controllers that go through IsAlreadyRunning and then Start or Continue.
NumMains == 3
\* Key-press goroutines that call Pause, Execute, Save, Quit, GetAliveCells.
NumKeys == 2
\* Largest turn limit a controller asks for.
MaxTurns == 3
\* Most distributors the model lets execute at once.
MaxLoops == 2
\* Largest image height and width of the generation check.
MaxDim == 3

Mains == 1..NumMains
Keys == 1..NumKeys

\* The nil [][]byte WORLD holds before any run; a world is named by the
\* Start call it was decoded for.
NoWorld == 0
Refs == {NoWorld} \cup Mains

ZeroParams == [Turns |-> 0, Threads |-> 0, ImageWidth |-> 0, ImageHeight |-> 0]

\* The parameters the controllers of the concurrency model run with.
RunParams ==
    {[Turns |-> MaxTurns, Threads |-> 1, ImageWidth |-> 4, ImageHeight |-> 2],
     [Turns |-> MaxTurns - 1, Threads |-> 2, ImageWidth |-> 4, ImageHeight |-> 2]}

\* The image the controller reads for its dimensions and sends with Start.
InputImage(q) ==
    IF q.ImageHeight = 2 /\ q.ImageWidth = 4
    THEN <<<<0, 0, 255, 255>>, <<0, 255, 0, 255>>>>
    ELSE [y \in 1..q.ImageHeight |-> [x \in 1..q.ImageWidth |-> 0]]

VARIABLES
    WORLD, PARAMS, ALIVECELLS, COMPLETEDTURNS, NUMBEROFCONTINUES,
    PAUSECHANNEL, FINISHEDCHANNEL, CANCELCHANNEL, DONECANCELINGCHANNEL,
    heap,              \* the cells of each world, by the Start call that owns it
    tempWorld,         \* distributor's tempWorld
    pc,                \* where each controller's current call stands
    p,                 \* the Params of each controller
    turns,             \* distributor's loop variable
    row,               \* next row of the write-back loop
    i,                 \* counter of the delivery loop
    n,                 \* value NUMBEROFCONTINUES++ has read
    cancelled,         \* distributor left its loop through the cancel case
    isAlreadyRunning,  \* the reply of IsAlreadyRunning
    reply,             \* the grid Start or Continue replied with
    input,             \* args.World as Start received it
    kpc,               \* where each key-press goroutine's call stands
    kpaused,           \* the goroutine is in its pause loop (next call: Execute)
    kreply,            \* the last reply a key-press goroutine got
    activeAtCall,      \* history: the loops executing when IsAlreadyRunning was called
    regIn,             \* history: the loops executing when Continue registered
    regEarly,          \* history: those of them with a generation still to compute
    restart,           \* history: the runs with other Params executing at that call
    sawZero,           \* history: Progress was {0,0} since IsAlreadyRunning was called
    viaCancel,         \* history: IsAlreadyRunning returned from its cancel branch
    since,             \* history: the Pause calls that had returned when a call began
    callPhase          \* history: whether a run was executing when a call began

shared == <<WORLD, PARAMS, ALIVECELLS, COMPLETEDTURNS, NUMBEROFCONTINUES,
            PAUSECHANNEL, FINISHEDCHANNEL, CANCELCHANNEL, DONECANCELINGCHANNEL>>
locals == <<heap, tempWorld, pc, p, turns, row, i, n, cancelled,
            isAlreadyRunning, reply, input>>
keys == <<kpc, kpaused, kreply>>
history == <<activeAtCall, regIn, regEarly, restart, sawZero, viaCancel, since, callPhase>>
vars == <<shared, locals, keys, history>>

-----------------------------------------------------------------------------
\* Pure functions of the distributor.

\* Go's % truncates towards zero.
GoRem(a, b) == IF a >= 0 THEN a % b ELSE -((-a) % b)

mod(x, m) == GoRem(x + m, m)

Offsets == {-1, 0, 1}

\* aliveNeighbours without its test i != 0 || j != 0: the cell counts itself.
aliveNeighboursWithSelf(world, y, x, q) ==
    Cardinality({o \in Offsets \X Offsets :
        world[mod(y + o[1], q.ImageHeight) + 1][mod(x + o[2], q.ImageWidth) + 1] # 0})

\* world is indexed from 1 here and from 0 in the source.
aliveNeighbours(world, y, x, q) ==
    Cardinality({o \in Offsets \X Offsets :
        /\ (o[1] # 0 \/ o[2] # 0)
        /\ world[mod(y + o[1], q.ImageHeight) + 1][mod(x + o[2], q.ImageWidth) + 1] # 0})

getNumAliveCells(q, world) ==
    Cardinality({c \in (1..q.ImageHeight) \X (1..q.ImageWidth) : world[c[1]][c[2]] = 255})

\* The cell the default case stores in tempWorld[y][x].
NextCell(world, y, x, q) ==
    LET numAliveNeighbours == aliveNeighbours(world, y, x, q) IN
    IF world[y + 1][x + 1] = 255
    THEN (IF numAliveNeighbours = 2 \/ numAliveNeighbours = 3 THEN 255 ELSE 0)
    ELSE (IF numAliveNeighbours = 3 THEN 255 ELSE 0)

\* tempWorld after the nested loops of the default case.
NextWorld(world, q) ==
    [y \in 1..q.ImageHeight |-> [x \in 1..q.ImageWidth |-> NextCell(world, y - 1, x - 1, q)]]

RECURSIVE Generations(_, _, _)
Generations(world, q, k) ==
    IF k = 0 THEN world ELSE Generations(NextWorld(world, q), q, k - 1)

-----------------------------------------------------------------------------
\* Channels of capacity 1.
Full(ch) == Len(ch) >= 1
Ready(ch) == Len(ch) > 0

LoopPcs == {"for", "wb", "world", "alive", "turns", "paused",
            "fin_alive", "fin_turns", "fin_chk", "fin_send", "fin_reset", "fin_done"}

\* A distributor is executing in the goroutine of m's Start call.
Executing(m) == pc[m] \in LoopPcs

Running == {m \in Mains : Executing(m)}

\* The distributors that have not left their for loop.
Computing == {m \in Mains : pc[m] \in {"for", "wb", "world", "alive", "turns", "paused"}}

Init ==
    /\ WORLD = NoWorld
    /\ PARAMS = ZeroParams
    /\ ALIVECELLS = 0
    /\ COMPLETEDTURNS = 0
    /\ NUMBEROFCONTINUES = 0
    /\ PAUSECHANNEL = <<>>
    /\ FINISHEDCHANNEL = <<>>
    /\ CANCELCHANNEL = <<>>
    /\ DONECANCELINGCHANNEL = <<>>
    /\ heap = [r \in Refs |-> <<>>]
    /\ tempWorld = [m \in Mains |-> <<>>]
    /\ pc = [m \in Mains |-> "idle"]
    /\ p = [m \in Mains |-> ZeroParams]
    /\ turns = [m \in Mains |-> 0]
    /\ row = [m \in Mains |-> 0]
    /\ i = [m \in Mains |-> 0]
    /\ n = [m \in Mains |-> 0]
    /\ cancelled = [m \in Mains |-> FALSE]
    /\ isAlreadyRunning = [m \in Mains |-> FALSE]
    /\ reply = [m \in Mains |-> <<>>]
    /\ input = [m \in Mains |-> <<>>]
    /\ kpc = [k \in Keys |-> "idle"]
    /\ kpaused = [k \in Keys |-> FALSE]
    /\ kreply = [k \in Keys |-> [op |-> "none", turns |-> 0, alive |-> 0, world |-> <<>>]]
    /\ activeAtCall = [m \in Mains |-> {}]
    /\ regIn = [m \in Mains |-> {}]
    /\ regEarly = [m \in Mains |-> {}]
    /\ restart = [m \in Mains |-> {}]
    /\ sawZero = [m \in Mains |-> FALSE]
    /\ viaCancel = [m \in Mains |-> FALSE]
    /\ since = [k \in Keys |-> {}]
    /\ callPhase = [k \in Keys |-> "none"]

-----------------------------------------------------------------------------
\* History variables record what a claim refers back to; each is cleared
\* once the call it belongs to is over.
\* History of Progress: m is between its IsAlreadyRunning call and the end of
\* the first generation of the run it then starts.
InWindow(m) ==
    \/ pc[m] \in {"iar_params", "iar_cancel", "iar_wait", "iar_ret"}
    \/ pc[m] \in {"for", "wb", "world", "alive", "turns", "paused"} /\ turns[m] = 0

Seen(alive, completed) ==
    [m \in Mains |-> sawZero[m] \/ (InWindow(m) /\ alive = 0 /\ completed = 0)]

-----------------------------------------------------------------------------
\* Engine.IsAlreadyRunning, called by the controller first of all.

\* Controllers are numbered in the order in which they connect.
IsAlreadyRunningCall(m, q) ==
    /\ pc[m] = "idle"
    /\ \A o \in Mains : o < m => pc[o] # "idle"
    /\ p' = [p EXCEPT ![m] = q]
    /\ activeAtCall' = [activeAtCall EXCEPT ![m] = Running]
    /\ restart' = [restart EXCEPT ![m] = {l \in Running : p[l] # q}]
    /\ sawZero' = [sawZero EXCEPT ![m] = (ALIVECELLS = 0 /\ COMPLETEDTURNS = 0)]
    /\ IF COMPLETEDTURNS - 1 > 0
       THEN pc' = [pc EXCEPT ![m] = "iar_params"] /\ UNCHANGED isAlreadyRunning
       ELSE /\ pc' = [pc EXCEPT ![m] = "iar_ret"]
            /\ isAlreadyRunning' = [isAlreadyRunning EXCEPT ![m] = FALSE]
    /\ UNCHANGED <<shared, heap, tempWorld, turns, row, i, n, cancelled, reply, input,
                   keys, regIn, regEarly, viaCancel, since, callPhase>>

IsAlreadyRunningParams(m) ==
    /\ pc[m] = "iar_params"
    /\ IF PARAMS = p[m]
       THEN /\ pc' = [pc EXCEPT ![m] = "iar_ret"]
            /\ isAlreadyRunning' = [isAlreadyRunning EXCEPT ![m] = TRUE]
       ELSE pc' = [pc EXCEPT ![m] = "iar_cancel"] /\ UNCHANGED isAlreadyRunning
    /\ UNCHANGED <<shared, heap, tempWorld, p, turns, row, i, n, cancelled, reply, input,
                   keys, history>>

\* CANCELCHANNEL <- true
IsAlreadyRunningCancel(m) ==
    /\ pc[m] = "iar_cancel"
    /\ ~Full(CANCELCHANNEL)
    /\ CANCELCHANNEL' = Append(CANCELCHANNEL, TRUE)
    /\ pc' = [pc EXCEPT ![m] = "iar_wait"]
    /\ UNCHANGED <<WORLD, PARAMS, ALIVECELLS, COMPLETEDTURNS, NUMBEROFCONTINUES,
                   PAUSECHANNEL, FINISHEDCHANNEL, DONECANCELINGCHANNEL,
                   heap, tempWorld, p, turns, row, i, n, cancelled, isAlreadyRunning,
                   reply, input, keys, history>>

\* <-DONECANCELINGCHANNEL, then reply false
IsAlreadyRunningDone(m) ==
    /\ pc[m] = "iar_wait"
    /\ Ready(DONECANCELINGCHANNEL)
    /\ DONECANCELINGCHANNEL' = Tail(DONECANCELINGCHANNEL)
    /\ isAlreadyRunning' = [isAlreadyRunning EXCEPT ![m] = FALSE]
    /\ viaCancel' = [viaCancel EXCEPT ![m] = TRUE]
    /\ pc' = [pc EXCEPT ![m] = "iar_ret"]
    /\ UNCHANGED <<WORLD, PARAMS, ALIVECELLS, COMPLETEDTURNS, NUMBEROFCONTINUES,
                   PAUSECHANNEL, FINISHEDCHANNEL, CANCELCHANNEL,
                   heap, tempWorld, p, turns, row, i, n, cancelled, reply, input,
                   keys, activeAtCall, regIn, regEarly, restart, sawZero, since, callPhase>>

-----------------------------------------------------------------------------
\* Engine.Start and the distributor it runs.

\* Where the for statement stands once turns is t.
ForOrExit(m, t) == IF t < p[m].Turns THEN "for" ELSE "fin_alive"

\* The controller got false: it reads its image and calls Start, whose
\* arguments the server decodes into a world of their own.  distributor
\* begins: PARAMS = p; tempWorld := make(...); turns := 0
StartCall(m) ==
    /\ pc[m] = "iar_ret"
    /\ ~isAlreadyRunning[m]
    /\ Cardinality(Running) < MaxLoops
    /\ heap' = [heap EXCEPT ![m] = InputImage(p[m])]
    /\ input' = [input EXCEPT ![m] = InputImage(p[m])]
    /\ PARAMS' = p[m]
    /\ tempWorld' = [tempWorld EXCEPT ![m] =
                       [y \in 1..p[m].ImageHeight |-> [x \in 1..p[m].ImageWidth |-> 0]]]
    /\ turns' = [turns EXCEPT ![m] = 0]
    /\ pc' = [pc EXCEPT ![m] = ForOrExit(m, 0)]
    /\ activeAtCall' = [activeAtCall EXCEPT ![m] = {}]
    /\ viaCancel' = [viaCancel EXCEPT ![m] = FALSE]
    /\ UNCHANGED <<WORLD, ALIVECELLS, COMPLETEDTURNS, NUMBEROFCONTINUES,
                   PAUSECHANNEL, FINISHEDCHANNEL, CANCELCHANNEL, DONECANCELINGCHANNEL,
                   p, row, i, n, cancelled, isAlreadyRunning, reply, keys,
                   regIn, regEarly, restart, sawZero, since, callPhase>>

\* case <-CANCELCHANNEL
SelectCancel(m) ==
    /\ pc[m] = "for"
    /\ Ready(CANCELCHANNEL)
    /\ CANCELCHANNEL' = Tail(CANCELCHANNEL)
    /\ cancelled' = [cancelled EXCEPT ![m] = TRUE]
    /\ pc' = [pc EXCEPT ![m] = "fin_alive"]
    /\ UNCHANGED <<WORLD, PARAMS, ALIVECELLS, COMPLETEDTURNS, NUMBEROFCONTINUES,
                   PAUSECHANNEL, FINISHEDCHANNEL, DONECANCELINGCHANNEL,
                   heap, tempWorld, p, turns, row, i, n, isAlreadyRunning, reply, input,
                   keys, history>>

\* case pause := <-PAUSECHANNEL; the iteration ends with turns++ unless the
\* inner loop is entered.
SelectPause(m) ==
    /\ pc[m] = "for"
    /\ Ready(PAUSECHANNEL)
    /\ PAUSECHANNEL' = Tail(PAUSECHANNEL)
    /\ IF Head(PAUSECHANNEL)
       THEN pc' = [pc EXCEPT ![m] = "paused"] /\ UNCHANGED turns
       ELSE /\ turns' = [turns EXCEPT ![m] = turns[m] + 1]
            /\ pc' = [pc EXCEPT ![m] = ForOrExit(m, turns[m] + 1)]
    /\ UNCHANGED <<WORLD, PARAMS, ALIVECELLS, COMPLETEDTURNS, NUMBEROFCONTINUES,
                   FINISHEDCHANNEL, CANCELCHANNEL, DONECANCELINGCHANNEL,
                   heap, tempWorld, p, row, i, n, cancelled, isAlreadyRunning, reply,
                   input, keys, history>>

\* An inner loop that receives only the false it waits for and leaves any
\* other signal in the channel.
PausedUntilFalse(m) ==
    /\ pc[m] = "paused"
    /\ Ready(PAUSECHANNEL)
    /\ Head(PAUSECHANNEL) = FALSE
    /\ PAUSECHANNEL' = Tail(PAUSECHANNEL)
    /\ turns' = [turns EXCEPT ![m] = turns[m] + 1]
    /\ pc' = [pc EXCEPT ![m] = ForOrExit(m, turns[m] + 1)]
    /\ UNCHANGED <<WORLD, PARAMS, ALIVECELLS, COMPLETEDTURNS, NUMBEROFCONTINUES,
                   FINISHEDCHANNEL, CANCELCHANNEL, DONECANCELINGCHANNEL,
                   heap, tempWorld, p, row, i, n, cancelled, isAlreadyRunning, reply,
                   input, keys, history>>

\* tempKey := <-PAUSECHANNEL in the inner loop
Paused(m) ==
    /\ pc[m] = "paused"
    /\ Ready(PAUSECHANNEL)
    /\ PAUSECHANNEL' = Tail(PAUSECHANNEL)
    /\ IF Head(PAUSECHANNEL) = FALSE
       THEN /\ turns' = [turns EXCEPT ![m] = turns[m] + 1]
            /\ pc' = [pc EXCEPT ![m] = ForOrExit(m, turns[m] + 1)]
       ELSE UNCHANGED <<pc, turns>>
    /\ UNCHANGED <<WORLD, PARAMS, ALIVECELLS, COMPLETEDTURNS, NUMBEROFCONTINUES,
                   FINISHEDCHANNEL, CANCELCHANNEL, DONECANCELINGCHANNEL,
                   heap, tempWorld, p, row, i, n, cancelled, isAlreadyRunning, reply,
                   input, keys, history>>

\* default: the nested loops that fill tempWorld
SelectDefault(m) ==
    /\ pc[m] = "for"
    /\ ~Ready(CANCELCHANNEL)
    /\ ~Ready(PAUSECHANNEL)
    /\ tempWorld' = [tempWorld EXCEPT ![m] = NextWorld(heap[m], p[m])]
    /\ row' = [row EXCEPT ![m] = 1]
    /\ pc' = [pc EXCEPT ![m] = "wb"]
    /\ UNCHANGED <<shared, heap, p, turns, i, n, cancelled, isAlreadyRunning, reply,
                   input, keys, history>>

\* world[y][x] = tempWorld[y][x], one row a step
WriteBack(m) ==
    /\ pc[m] = "wb"
    /\ heap' = [heap EXCEPT ![m][row[m]] = tempWorld[m][row[m]]]
    /\ IF row[m] < p[m].ImageHeight
       THEN row' = [row EXCEPT ![m] = row[m] + 1] /\ UNCHANGED pc
       ELSE pc' = [pc EXCEPT ![m] = "world"] /\ row' = [row EXCEPT ![m] = 0]
    /\ UNCHANGED <<shared, tempWorld, p, turns, i, n, cancelled, isAlreadyRunning,
                   reply, input, keys, history>>

\* WORLD = world
PublishWorld(m) ==
    /\ pc[m] = "world"
    /\ WORLD' = m
    /\ pc' = [pc EXCEPT ![m] = "alive"]
    /\ UNCHANGED <<PARAMS, ALIVECELLS, COMPLETEDTURNS, NUMBEROFCONTINUES,
                   PAUSECHANNEL, FINISHEDCHANNEL, CANCELCHANNEL, DONECANCELINGCHANNEL,
                   heap, tempWorld, p, turns, row, i, n, cancelled, isAlreadyRunning,
                   reply, input, keys, history>>

\* ALIVECELLS = getNumAliveCells(p, world)
PublishAlive(m) ==
    /\ pc[m] = "alive"
    /\ ALIVECELLS' = getNumAliveCells(p[m], heap[m])
    /\ sawZero' = Seen(ALIVECELLS', COMPLETEDTURNS)
    /\ pc' = [pc EXCEPT ![m] = "turns"]
    /\ UNCHANGED <<WORLD, PARAMS, COMPLETEDTURNS, NUMBEROFCONTINUES,
                   PAUSECHANNEL, FINISHEDCHANNEL, CANCELCHANNEL, DONECANCELINGCHANNEL,
                   heap, tempWorld, p, turns, row, i, n, cancelled, isAlreadyRunning,
                   reply, input, keys, activeAtCall, regIn, regEarly, restart, viaCancel,
                   since, callPhase>>

\* COMPLETEDTURNS = turns + 1; turns++
PublishTurns(m) ==
    /\ pc[m] = "turns"
    /\ COMPLETEDTURNS' = turns[m] + 1
    /\ sawZero' = Seen(ALIVECELLS, COMPLETEDTURNS')
    /\ turns' = [turns EXCEPT ![m] = turns[m] + 1]
    /\ pc' = [pc EXCEPT ![m] = ForOrExit(m, turns[m] + 1)]
    /\ UNCHANGED <<WORLD, PARAMS, ALIVECELLS, NUMBEROFCONTINUES,
                   PAUSECHANNEL, FINISHEDCHANNEL, CANCELCHANNEL, DONECANCELINGCHANNEL,
                   heap, tempWorld, p, row, i, n, cancelled, isAlreadyRunning,
                   reply, input, keys, activeAtCall, regIn, regEarly, restart, viaCancel,
                   since, callPhase>>

\* ALIVECELLS = 0, after the loop or in the cancel case
ResetAlive(m) ==
    /\ pc[m] = "fin_alive"
    /\ ALIVECELLS' = 0
    /\ sawZero' = [Seen(0, COMPLETEDTURNS) EXCEPT ![m] = FALSE]
    /\ restart' = [restart EXCEPT ![m] = {}]
    /\ pc' = [pc EXCEPT ![m] = "fin_turns"]
    /\ UNCHANGED <<WORLD, PARAMS, COMPLETEDTURNS, NUMBEROFCONTINUES,
                   PAUSECHANNEL, FINISHEDCHANNEL, CANCELCHANNEL, DONECANCELINGCHANNEL,
                   heap, tempWorld, p, turns, row, i, n, cancelled, isAlreadyRunning,
                   reply, input, keys, activeAtCall, regIn, regEarly, viaCancel, since, callPhase>>

\* ResetTurns without its assignment COMPLETEDTURNS = 0.
ResetTurnsOmitted(m) ==
    /\ pc[m] = "fin_turns"
    /\ i' = [i EXCEPT ![m] = 0]
    /\ pc' = [pc EXCEPT ![m] = "fin_chk"]
    /\ UNCHANGED <<shared, heap, tempWorld, p, turns, row, n, cancelled,
                   isAlreadyRunning, reply, input, keys, history>>

\* COMPLETEDTURNS = 0; i := 0
ResetTurns(m) ==
    /\ pc[m] = "fin_turns"
    /\ COMPLETEDTURNS' = 0
    /\ sawZero' = Seen(ALIVECELLS, 0)
    /\ i' = [i EXCEPT ![m] = 0]
    /\ pc' = [pc EXCEPT ![m] = "fin_chk"]
    /\ UNCHANGED <<WORLD, PARAMS, ALIVECELLS, NUMBEROFCONTINUES,
                   PAUSECHANNEL, FINISHEDCHANNEL, CANCELCHANNEL, DONECANCELINGCHANNEL,
                   heap, tempWorld, p, turns, row, n, cancelled, isAlreadyRunning,
                   reply, input, keys, activeAtCall, regIn, regEarly, restart, viaCancel,
                   since, callPhase>>

\* i < NUMBEROFCONTINUES
DeliverCheck(m) ==
    /\ pc[m] = "fin_chk"
    /\ IF i[m] < NUMBEROFCONTINUES
       THEN pc' = [pc EXCEPT ![m] = "fin_send"] /\ UNCHANGED i
       ELSE pc' = [pc EXCEPT ![m] = "fin_reset"] /\ i' = [i EXCEPT ![m] = 0]
    /\ UNCHANGED <<shared, heap, tempWorld, p, turns, row, n, cancelled,
                   isAlreadyRunning, reply, input, keys, history>>

\* FINISHEDCHANNEL <- world; i++
DeliverSend(m) ==
    /\ pc[m] = "fin_send"
    /\ ~Full(FINISHEDCHANNEL)
    /\ FINISHEDCHANNEL' = Append(FINISHEDCHANNEL, m)
    /\ i' = [i EXCEPT ![m] = i[m] + 1]
    /\ pc' = [pc EXCEPT ![m] = "fin_chk"]
    /\ UNCHANGED <<WORLD, PARAMS, ALIVECELLS, COMPLETEDTURNS, NUMBEROFCONTINUES,
                   PAUSECHANNEL, CANCELCHANNEL, DONECANCELINGCHANNEL,
                   heap, tempWorld, p, turns, row, n, cancelled, isAlreadyRunning,
                   reply, input, keys, history>>

\* NUMBEROFCONTINUES = 0, followed by return world after the loop
ResetContinues(m) ==
    /\ pc[m] = "fin_reset"
    /\ NUMBEROFCONTINUES' = 0
    /\ pc' = [pc EXCEPT ![m] = IF cancelled[m] THEN "fin_done" ELSE "ret"]
    /\ UNCHANGED <<WORLD, PARAMS, ALIVECELLS, COMPLETEDTURNS,
                   PAUSECHANNEL, FINISHEDCHANNEL, CANCELCHANNEL, DONECANCELINGCHANNEL,
                   heap, tempWorld, p, turns, row, i, n, cancelled, isAlreadyRunning,
                   reply, input, keys, history>>

\* DONECANCELINGCHANNEL <- true; return world
DoneCanceling(m) ==
    /\ pc[m] = "fin_done"
    /\ ~Full(DONECANCELINGCHANNEL)
    /\ DONECANCELINGCHANNEL' = Append(DONECANCELINGCHANNEL, TRUE)
    /\ pc' = [pc EXCEPT ![m] = "ret"]
    /\ UNCHANGED <<WORLD, PARAMS, ALIVECELLS, COMPLETEDTURNS, NUMBEROFCONTINUES,
                   PAUSECHANNEL, FINISHEDCHANNEL, CANCELCHANNEL,
                   heap, tempWorld, p, turns, row, i, n, cancelled, isAlreadyRunning,
                   reply, input, keys, history>>

\* WORLD = distributor(args.P, args.World)
StartAssign(m) ==
    /\ pc[m] = "ret"
    /\ WORLD' = m
    /\ pc' = [pc EXCEPT ![m] = "start_reply"]
    /\ UNCHANGED <<PARAMS, ALIVECELLS, COMPLETEDTURNS, NUMBEROFCONTINUES,
                   PAUSECHANNEL, FINISHEDCHANNEL, CANCELCHANNEL, DONECANCELINGCHANNEL,
                   heap, tempWorld, p, turns, row, i, n, cancelled, isAlreadyRunning,
                   reply, input, keys, history>>

\* *reply = WORLD; return: the server encodes the cells WORLD then has.
StartReply(m) ==
    /\ pc[m] = "start_reply"
    /\ reply' = [reply EXCEPT ![m] = heap[WORLD]]
    /\ pc' = [pc EXCEPT ![m] = "started"]
    /\ UNCHANGED <<shared, heap, tempWorld, p, turns, row, i, n, cancelled,
                   isAlreadyRunning, input, keys, history>>

-----------------------------------------------------------------------------
\* Engine.Continue, called by a controller that got true.

\* NUMBEROFCONTINUES++ reads ...
ContinueCall(m) ==
    /\ pc[m] = "iar_ret"
    /\ isAlreadyRunning[m]
    /\ n' = [n EXCEPT ![m] = NUMBEROFCONTINUES]
    /\ pc' = [pc EXCEPT ![m] = "cont_inc"]
    /\ activeAtCall' = [activeAtCall EXCEPT ![m] = {}]
    /\ restart' = [restart EXCEPT ![m] = {}]
    /\ sawZero' = [sawZero EXCEPT ![m] = FALSE]
    /\ UNCHANGED <<shared, heap, tempWorld, p, turns, row, i, cancelled,
                   isAlreadyRunning, reply, input, keys, regIn, regEarly, viaCancel,
                   since, callPhase>>

\* ... and writes.
ContinueRegister(m) ==
    /\ pc[m] = "cont_inc"
    /\ NUMBEROFCONTINUES' = n[m] + 1
    /\ n' = [n EXCEPT ![m] = 0]
    /\ regIn' = [regIn EXCEPT ![m] = Running]
    /\ regEarly' = [regEarly EXCEPT ![m] = Computing]
    /\ pc' = [pc EXCEPT ![m] = "cont_recv"]
    /\ UNCHANGED <<WORLD, PARAMS, ALIVECELLS, COMPLETEDTURNS,
                   PAUSECHANNEL, FINISHEDCHANNEL, CANCELCHANNEL, DONECANCELINGCHANNEL,
                   heap, tempWorld, p, turns, row, i, cancelled, isAlreadyRunning,
                   reply, input, keys, activeAtCall, restart, sawZero, viaCancel, since, callPhase>>

\* *reply = <-FINISHEDCHANNEL; return
ContinueReceive(m) ==
    /\ pc[m] = "cont_recv"
    /\ Ready(FINISHEDCHANNEL)
    /\ reply' = [reply EXCEPT ![m] = heap[Head(FINISHEDCHANNEL)]]
    /\ FINISHEDCHANNEL' = Tail(FINISHEDCHANNEL)
    /\ pc' = [pc EXCEPT ![m] = "continued"]
    /\ UNCHANGED <<WORLD, PARAMS, ALIVECELLS, COMPLETEDTURNS, NUMBEROFCONTINUES,
                   PAUSECHANNEL, CANCELCHANNEL, DONECANCELINGCHANNEL,
                   heap, tempWorld, p, turns, row, i, n, cancelled, isAlreadyRunning,
                   input, keys, history>>

-----------------------------------------------------------------------------
\* The calls of a controller's key-press goroutine and ticker: Engine.Pause,
\* Engine.Execute, Engine.Save, Engine.Quit and Engine.GetAliveCells.

NoReply(op) == [op |-> op, turns |-> 0, alive |-> 0, world |-> <<>>]

\* The key-press goroutines whose Pause has returned and whose Execute is
\* not yet called.
PauseReturned == {j \in Keys : kpaused[j] /\ kpc[j] = "idle"}

\* History of the runs: a distributor is in its inner pause loop ("paused"),
\* one is executing ("during"), none is and one has returned ("after"), or
\* none has begun ("before").
Phase ==
    IF \E m \in Mains : pc[m] = "paused" THEN "paused"
    ELSE IF Running # {} THEN "during"
    ELSE IF \E m \in Mains : pc[m] \in {"ret", "start_reply", "started"} THEN "after"
    ELSE "before"

\* 'p': PAUSECHANNEL <- true
PauseCall(k) ==
    /\ kpc[k] = "idle"
    /\ ~kpaused[k]
    /\ ~Full(PAUSECHANNEL)
    /\ PAUSECHANNEL' = Append(PAUSECHANNEL, TRUE)
    /\ kpc' = [kpc EXCEPT ![k] = "turns"]
    /\ kreply' = [kreply EXCEPT ![k] = NoReply("Pause")]
    /\ since' = [since EXCEPT ![k] = {}]
    /\ callPhase' = [callPhase EXCEPT ![k] = Phase]
    /\ UNCHANGED <<WORLD, PARAMS, ALIVECELLS, COMPLETEDTURNS, NUMBEROFCONTINUES,
                   FINISHEDCHANNEL, CANCELCHANNEL, DONECANCELINGCHANNEL,
                   locals, kpaused, activeAtCall, regIn, regEarly, restart, sawZero,
                   viaCancel>>

\* 'p' in the pause loop: PAUSECHANNEL <- false
ExecuteCall(k) ==
    /\ kpc[k] = "idle"
    /\ kpaused[k]
    /\ ~Full(PAUSECHANNEL)
    /\ PAUSECHANNEL' = Append(PAUSECHANNEL, FALSE)
    /\ kpc' = [kpc EXCEPT ![k] = "turns"]
    /\ kreply' = [kreply EXCEPT ![k] = NoReply("Execute")]
    /\ since' = [j \in Keys |-> since[j] \ {k}]
    /\ callPhase' = [callPhase EXCEPT ![k] = "none"]
    /\ UNCHANGED <<WORLD, PARAMS, ALIVECELLS, COMPLETEDTURNS, NUMBEROFCONTINUES,
                   FINISHEDCHANNEL, CANCELCHANNEL, DONECANCELINGCHANNEL,
                   locals, kpaused, activeAtCall, regIn, regEarly, restart, sawZero,
                   viaCancel>>

\* CompletedTurns: COMPLETEDTURNS, in Pause and Execute
ReadTurns(k) ==
    /\ kpc[k] = "turns"
    /\ kreply' = [kreply EXCEPT ![k].turns = COMPLETEDTURNS]
    /\ kpc' = [kpc EXCEPT ![k] = "world"]
    /\ UNCHANGED <<shared, locals, kpaused, history>>

\* World: WORLD; return: the server encodes the cells WORLD then has.
ReadWorld(k) ==
    /\ kpc[k] = "world"
    /\ kreply' = [kreply EXCEPT ![k].world = heap[WORLD]]
    /\ kpc' = [kpc EXCEPT ![k] = "idle"]
    /\ kpaused' = [kpaused EXCEPT ![k] =
                     IF kreply[k].op = "Save" THEN kpaused[k] ELSE kreply[k].op = "Pause"]
    /\ UNCHANGED <<shared, locals, history>>

\* 's': Save reads COMPLETEDTURNS first.
SaveCall(k) ==
    /\ kpc[k] = "idle"
    /\ ~kpaused[k]
    /\ kreply' = [kreply EXCEPT ![k] = [NoReply("Save") EXCEPT !.turns = COMPLETEDTURNS]]
    /\ kpc' = [kpc EXCEPT ![k] = "world"]
    /\ since' = [since EXCEPT ![k] = PauseReturned]
    /\ callPhase' = [callPhase EXCEPT ![k] = "none"]
    /\ UNCHANGED <<shared, locals, kpaused, activeAtCall, regIn, regEarly, restart,
                   sawZero, viaCancel>>

\* A Quit that stops the run as well: it sends the cancel signal first.
QuitCallCancelling(k) ==
    /\ kpc[k] = "idle"
    /\ ~kpaused[k]
    /\ ~Full(CANCELCHANNEL)
    /\ CANCELCHANNEL' = Append(CANCELCHANNEL, TRUE)
    /\ kreply' = [kreply EXCEPT ![k] = [NoReply("Quit") EXCEPT !.turns = COMPLETEDTURNS]]
    /\ since' = [since EXCEPT ![k] = {}]
    /\ callPhase' = [callPhase EXCEPT ![k] = "none"]
    /\ UNCHANGED <<WORLD, PARAMS, ALIVECELLS, COMPLETEDTURNS, NUMBEROFCONTINUES,
                   PAUSECHANNEL, FINISHEDCHANNEL, DONECANCELINGCHANNEL,
                   locals, kpc, kpaused, activeAtCall, regIn, regEarly, restart,
                   sawZero, viaCancel>>

\* 'q': *reply = COMPLETEDTURNS
QuitCall(k) ==
    /\ kpc[k] = "idle"
    /\ ~kpaused[k]
    /\ kreply' = [kreply EXCEPT ![k] = [NoReply("Quit") EXCEPT !.turns = COMPLETEDTURNS]]
    /\ since' = [since EXCEPT ![k] = {}]
    /\ callPhase' = [callPhase EXCEPT ![k] = "none"]
    /\ UNCHANGED <<shared, locals, kpc, kpaused, activeAtCall, regIn, regEarly, restart,
                   sawZero, viaCancel>>

\* The ticker: GetAliveCells reads ALIVECELLS first ...
GetAliveCellsCall(k) ==
    /\ kpc[k] = "idle"
    /\ ~kpaused[k]
    /\ kreply' = [kreply EXCEPT ![k] =
                    [NoReply("GetAliveCells") EXCEPT !.alive = ALIVECELLS]]
    /\ kpc' = [kpc EXCEPT ![k] = "completed"]
    /\ since' = [since EXCEPT ![k] = {}]
    /\ callPhase' = [callPhase EXCEPT ![k] = Phase]
    /\ UNCHANGED <<shared, locals, kpaused, activeAtCall, regIn, regEarly, restart,
                   sawZero, viaCancel>>

\* ... and COMPLETEDTURNS second.
GetAliveCellsTurns(k) ==
    /\ kpc[k] = "completed"
    /\ kreply' = [kreply EXCEPT ![k].turns = COMPLETEDTURNS]
    /\ kpc' = [kpc EXCEPT ![k] = "idle"]
    /\ callPhase' = [callPhase EXCEPT ![k] = IF Running # {} THEN "during" ELSE @]
    /\ UNCHANGED <<shared, locals, kpaused, activeAtCall, regIn, regEarly, restart,
                   sawZero, viaCancel, since>>

KeyPresses(k) ==
    \/ PauseCall(k)
    \/ ExecuteCall(k)
    \/ ReadTurns(k)
    \/ ReadWorld(k)
    \/ SaveCall(k)
    \/ QuitCall(k)
    \/ GetAliveCellsCall(k)
    \/ GetAliveCellsTurns(k)

Controller(m) ==
    \/ \E q \in RunParams : IsAlreadyRunningCall(m, q)
    \/ IsAlreadyRunningParams(m)
    \/ IsAlreadyRunningCancel(m)
    \/ IsAlreadyRunningDone(m)
    \/ StartCall(m)
    \/ ContinueCall(m)
    \/ ContinueRegister(m)
    \/ ContinueReceive(m)

Loop(m) ==
    \/ SelectCancel(m)
    \/ SelectDefault(m)
    \/ WriteBack(m)
    \/ PublishWorld(m)
    \/ PublishAlive(m)
    \/ PublishTurns(m)
    \/ ResetAlive(m)
    \/ ResetTurns(m)
    \/ DeliverCheck(m)
    \/ DeliverSend(m)
    \/ ResetContinues(m)
    \/ DoneCanceling(m)
    \/ StartAssign(m)
    \/ StartReply(m)

\* The steps of a run that is neither cancelled nor waited for.
Run(m) ==
    \/ \E q \in RunParams : IsAlreadyRunningCall(m, q)
    \/ StartCall(m)
    \/ SelectPause(m)
    \/ Paused(m)
    \/ SelectDefault(m)
    \/ WriteBack(m)
    \/ PublishWorld(m)
    \/ PublishAlive(m)
    \/ PublishTurns(m)
    \/ ResetAlive(m)
    \/ ResetTurns(m)
    \/ DeliverCheck(m)
    \/ ResetContinues(m)
    \/ StartAssign(m)
    \/ StartReply(m)

\* Several controllers that start, join and cancel runs.
NextRuns == \E m \in Mains : Controller(m) \/ Loop(m)

SpecRuns == Init /\ [][NextRuns]_vars

\* One controller's run with the key presses and tickers of several.
NextCtl == Run(1) \/ \E k \in Keys : KeyPresses(k)

SpecCtl == Init /\ [][NextCtl]_vars

\* Two controllers that start, join and cancel runs while a ticker asks for
\* the alive cells.
NextQuery ==
    \/ \E m \in {1, 2} : Controller(m) \/ Loop(m)
    \/ GetAliveCellsCall(1)
    \/ GetAliveCellsTurns(1)

SpecQuery == Init /\ [][NextQuery]_vars

\* One generation of a run on any image of bounded height and width: the
\* state Start leaves when it has entered distributor.
StepParams ==
    {[Turns |-> 1, Threads |-> 1, ImageWidth |-> w, ImageHeight |-> h] :
        h \in 1..MaxDim, w \in 1..MaxDim}

Images(q) == [1..q.ImageHeight -> [1..q.ImageWidth -> {0, 255}]]

InitStep ==
    /\ WORLD = NoWorld
    /\ PARAMS \in StepParams
    /\ ALIVECELLS = 0
    /\ COMPLETEDTURNS = 0
    /\ NUMBEROFCONTINUES = 0
    /\ PAUSECHANNEL = <<>>
    /\ FINISHEDCHANNEL = <<>>
    /\ CANCELCHANNEL = <<>>
    /\ DONECANCELINGCHANNEL = <<>>
    /\ input \in {[m \in Mains |-> IF m = 1 THEN g ELSE <<>>] : g \in Images(PARAMS)}
    /\ heap = [r \in Refs |-> IF r = 1 THEN input[1] ELSE <<>>]
    /\ tempWorld = [m \in Mains |->
                      IF m = 1
                      THEN [y \in 1..PARAMS.ImageHeight |-> [x \in 1..PARAMS.ImageWidth |-> 0]]
                      ELSE <<>>]
    /\ pc = [m \in Mains |-> IF m = 1 THEN "for" ELSE "idle"]
    /\ p = [m \in Mains |-> IF m = 1 THEN PARAMS ELSE ZeroParams]
    /\ turns = [m \in Mains |-> 0]
    /\ row = [m \in Mains |-> 0]
    /\ i = [m \in Mains |-> 0]
    /\ n = [m \in Mains |-> 0]
    /\ cancelled = [m \in Mains |-> FALSE]
    /\ isAlreadyRunning = [m \in Mains |-> FALSE]
    /\ reply = [m \in Mains |-> <<>>]
    /\ kpc = [k \in Keys |-> "idle"]
    /\ kpaused = [k \in Keys |-> FALSE]
    /\ kreply = [k \in Keys |-> NoReply("none")]
    /\ activeAtCall = [m \in Mains |-> {}]
    /\ regIn = [m \in Mains |-> {}]
    /\ regEarly = [m \in Mains |-> {}]
    /\ restart = [m \in Mains |-> {}]
    /\ sawZero = [m \in Mains |-> FALSE]
    /\ viaCancel = [m \in Mains |-> FALSE]
    /\ since = [k \in Keys |-> {}]
    /\ callPhase = [k \in Keys |-> "none"]

NextStep ==
    \/ SelectDefault(1)
    \/ WriteBack(1)
    \/ PublishWorld(1)
    \/ PublishAlive(1)
    \/ PublishTurns(1)

SpecStep == InitStep /\ [][NextStep]_vars

\* The whole engine.
Next ==
    \/ \E m \in Mains : Controller(m) \/ Loop(m) \/ SelectPause(m) \/ Paused(m)
    \/ \E k \in Keys : KeyPresses(k)

Spec == Init /\ [][Next]_vars

-----------------------------------------------------------------------------
\* C1: at most one Simulation Loop (distributor) executes at any time, under
\* any interleaving of IsAlreadyRunning and Start calls of several callers.
\* Every Start of SpecRuns follows a false reply of IsAlreadyRunning.
C1_AtMostOneLoop == Cardinality(Running) <= 1

\* C2: when a run ends, the caller of Start and every Continue caller that
\* registered before the run's last generation was over receive the same
\* grid, the one the run's world holds after its last generation.
C2_SameFinalGrid ==
    /\ \A m \in Mains : pc[m] = "started" => reply[m] = heap[m]
    /\ \A c \in Mains : pc[c] = "continued" =>
          \A m \in regEarly[c] : ~Executing(m) => reply[c] = heap[m]

\* C3: IsAlreadyRunning returns false from its cancel branch only after every
\* loop that was executing when it was called has stopped computing, served
\* its waiters and reset Progress, that is, has left distributor.
C3_CancelRendezvous ==
    \A m \in Mains :
        pc[m] = "iar_ret" /\ viaCancel[m] => \A l \in activeAtCall[m] : ~Executing(l)

\* C4: IsAlreadyRunning(q) replies true when a loop with Params q executes
\* from the call to the reply, whatever its turn, and replies false when no
\* loop was executing at the call.
C4_RepliesWhetherRunning ==
    \A m \in Mains :
        pc[m] = "iar_ret" =>
            /\ (\E l \in activeAtCall[m] : Executing(l) /\ p[l] = p[m]) => isAlreadyRunning[m]
            /\ activeAtCall[m] = {} => ~isAlreadyRunning[m]

\* C5: a run that is not cancelled has applied the Grid Stepper exactly
\* turnLimit times to its initial grid when distributor returns, whatever
\* Pause and Execute calls were made during the run.
C5_TurnLimitGenerations ==
    \A m \in Mains :
        pc[m] \in {"ret", "start_reply", "started"} /\ ~cancelled[m] =>
            heap[m] = Generations(input[m], p[m], p[m].Turns)

\* C6: completedTurns and grid returned by a Save that was called after a
\* Pause had returned and before the Execute that follows it equal the
\* completedTurns and grid that Pause returned.
C6_NoAdvanceAfterPause ==
    \A k \in Keys :
        kpc[k] = "idle" /\ kreply[k].op = "Save" =>
            \A j \in since[k] :
                /\ kreply[j].turns = kreply[k].turns
                /\ kreply[j].world = kreply[k].world

\* C7: when a controller whose Params differ from those of an executing run
\* goes through IsAlreadyRunning and Start, Progress has been {0,0} at some
\* point between that call and the end of the new run's first generation,
\* and the old run computes and publishes nothing while the new run executes.
C7_ResetOnRestart ==
    \A m \in Mains :
        Executing(m) /\ restart[m] # {} =>
            /\ turns[m] >= 1 => sawZero[m]
            /\ \A l \in restart[m] : l \notin Computing

\* The image of C8 read as the claim states it: alive iff the cell was alive
\* with 2 or 3 alive Moore neighbours or dead with exactly 3, neighbours
\* taken at ((y+i) mod height, (x+j) mod width), coordinates from 0.
MooreCount(g, y, x, h, w) ==
    Cardinality({o \in Offsets \X Offsets :
        /\ o # <<0, 0>>
        /\ g[((y + o[1]) % h) + 1][((x + o[2]) % w) + 1] = 255})

RuleAlive(g, y, x, h, w) ==
    \/ g[y + 1][x + 1] = 255 /\ MooreCount(g, y, x, h, w) \in {2, 3}
    \/ g[y + 1][x + 1] = 0 /\ MooreCount(g, y, x, h, w) = 3

\* C8: for every grid of cells in {0, 255} of bounded height and width and
\* every cell, the generation the loop has written back sets the cell to 255
\* iff the birth/survival rule with toroidal neighbours says alive, else to 0.
C8_GenerationRule ==
    pc[1] \in {"world", "alive", "turns"} \/ turns[1] = 1 =>
        \A y \in 0..(p[1].ImageHeight - 1), x \in 0..(p[1].ImageWidth - 1) :
            heap[1][y + 1][x + 1] =
                IF RuleAlive(input[1], y, x, p[1].ImageHeight, p[1].ImageWidth)
                THEN 255 ELSE 0

\* C8 witness: a generation is written back on an image of height 1 and
\* width 2 that has cells born and on one of height 3 with a survivor.
C8_Witness ==
    /\ pc[1] = "world"
    /\ \/ /\ p[1].ImageHeight = 1 /\ p[1].ImageWidth = 2
          /\ input[1] # heap[1]
       \/ /\ p[1].ImageHeight = 3 /\ p[1].ImageWidth = 3
          /\ input[1][1][1] = 255 /\ heap[1][1][1] = 255
          /\ input[1] # heap[1]

\* The waiters that registered during runs that have all left distributor.
Stranded ==
    {c \in Mains : /\ pc[c] = "cont_recv"
                   /\ regIn[c] # {}
                   /\ \A l \in regIn[c] : ~Executing(l)}

\* C9: every Continue that registered while a run was executing has its grid
\* once the run has left distributor: no such caller is left waiting without
\* a grid in the channel for it.
C9_WaitersServed == Cardinality(Stranded) <= Len(FINISHEDCHANNEL)

\* No call is in progress except Continue calls waiting for a grid, and no
\* grid is in flight: only a new run can deliver one.
Quiescent ==
    /\ FINISHEDCHANNEL = <<>>
    /\ \A m \in Mains : pc[m] \in {"idle", "started", "continued", "cont_recv"}

\* C10: a Continue that registered when no loop was executing does not stay
\* blocked until some later run: it is not left waiting in a state from which
\* only a new run can release it.
C10_IdleContinueReturns ==
    ~(Quiescent /\ \E c \in Mains : pc[c] = "cont_recv" /\ regIn[c] = {})

-----------------------------------------------------------------------------
\* The next statement of a call that is in progress on the server, or the
\* Start or Continue a controller issues once IsAlreadyRunning has replied.
\* A call that has not been issued yet (a new controller, a key press) is
\* not among them: scheduling does not make it happen.
CallStep(m) ==
    \/ IsAlreadyRunningParams(m)
    \/ IsAlreadyRunningCancel(m)
    \/ IsAlreadyRunningDone(m)
    \/ StartCall(m)
    \/ ContinueCall(m)
    \/ ContinueRegister(m)
    \/ ContinueReceive(m)
    \/ Loop(m)
    \/ SelectPause(m)
    \/ Paused(m)

KeyStep(k) == ReadTurns(k) \/ ReadWorld(k) \/ GetAliveCellsTurns(k)

\* C11: every IsAlreadyRunning call returns under fair scheduling.  While one
\* is in progress some call in progress can take a step: the engine is never
\* stopped with the caller still waiting for its reply.
C11_IsAlreadyRunningReturns ==
    (\E m \in Mains : pc[m] \in {"iar_params", "iar_cancel", "iar_wait"}) =>
        ENABLED (\E o \in Mains : CallStep(o))

\* C12: GetAliveCells returns {completedTurns: 0, aliveCount: 0} whenever no
\* Simulation Loop is executing: the counters it reads are both 0 in every
\* such state, before any Start and after a run has completed or has been
\* cancelled, and so is every reply whose two reads were made with no loop executing.
C12_IdleProgressZero ==
    /\ Running = {} => ALIVECELLS = 0 /\ COMPLETEDTURNS = 0
    /\ \A k \in Keys :
          /\ kpc[k] = "idle"
          /\ kreply[k].op = "GetAliveCells"
          /\ callPhase[k] \in {"before", "after"}
          => kreply[k].turns = 0 /\ kreply[k].alive = 0

\* C12 witness: GetAliveCells has replied to a call made after a run of
\* several generations was cancelled and its Start had returned.
C12_Witness ==
    /\ pc[1] = "started"
    /\ cancelled[1]
    /\ Running = {}
    /\ \E k \in Keys :
          /\ kpc[k] = "idle"
          /\ kreply[k].op = "GetAliveCells"
          /\ callPhase[k] = "after"

\* The whole generations of controller 1's run.
WholeGrids == {Generations(input[1], p[1], g) : g \in 0..p[1].Turns}

\* C13: a grid returned by Save, Pause or Execute during a run is the complete
\* grid of one generation of that run, never a mix of two generations.
C13_WholeGeneration ==
    \A k \in Keys :
        /\ kpc[k] = "idle"
        /\ kreply[k].op \in {"Save", "Pause", "Execute"}
        /\ kreply[k].world # <<>>
        => kreply[k].world \in WholeGrids

\* A step of key-press goroutine k inside Save, Quit or GetAliveCells.
Queried(k) ==
    /\ kreply'[k].op \in {"Save", "Quit", "GetAliveCells"}
    /\ <<kpc[k], kreply[k]>> # <<kpc'[k], kreply'[k]>>

\* Save, Quit and GetAliveCells wait for nothing: the call can begin in any
\* state and each of its reads can be made in any state.
NonBlocking ==
    \A k \in Keys :
        /\ kpc[k] = "idle" /\ ~kpaused[k] =>
              /\ ENABLED SaveCall(k)
              /\ ENABLED QuitCall(k)
              /\ ENABLED GetAliveCellsCall(k)
        /\ kpc[k] = "world" => ENABLED ReadWorld(k)
        /\ kpc[k] = "completed" => ENABLED GetAliveCellsTurns(k)

\* C14: Save, Quit and GetAliveCells are read-only and non-blocking in every
\* state: their steps leave the grid, Progress, RunParameters, the waiter
\* count, the signals and the run itself unchanged, and Quit returns the
\* current completedTurns.
C14_ReadOnlyQueries ==
    /\ []NonBlocking
    /\ [][\A k \in Keys :
            Queried(k) =>
                /\ UNCHANGED <<shared, locals>>
                /\ kreply'[k].op = "Quit" => kreply'[k].turns = COMPLETEDTURNS]_vars

\* C14 witness: Quit returned a non-zero completedTurns during a run that has
\* since gone on to further turns.
C14_Witness ==
    \E k \in Keys :
        /\ kreply[k].op = "Quit"
        /\ kreply[k].turns >= 1
        /\ 1 \in Computing
        /\ turns[1] > kreply[k].turns

\* C15: a loop that has taken the cancel signal computes no further
\* generation; once it has signalled cancellation-complete every waiter that
\* registered while it was computing has been sent its grid, and the Start
\* call that launched it returns that same unfinished grid.
C15_CancelDelivers ==
    \A m \in Mains :
        cancelled[m] =>
            /\ heap[m] = Generations(input[m], p[m], turns[m])
            /\ pc[m] \in {"ret", "start_reply", "started"} =>
                  \A c \in Mains :
                      m \in regEarly[c] =>
                          /\ pc[c] = "cont_recv" => Ready(FINISHEDCHANNEL)
                          /\ pc[c] = "continued" => reply[c] = heap[m]
            /\ pc[m] = "started" => reply[m] = heap[m]

\* The Execute calls that are due: those of the key-press goroutines whose
\* Pause was issued during a run and has returned.
ExecuteDue ==
    {k \in Keys : kpaused[k] /\ kpc[k] = "idle" /\ callPhase[k] \in {"during", "paused"}}

\* C16: every Start call returns under fair scheduling, provided every Pause
\* issued during its run is followed by an Execute.  While a distributor is
\* executing, a call in progress or an Execute that is due can take a step:
\* the loop is never left blocked with nothing to release it.
C16_StartReturns ==
    (\E m \in Mains : Executing(m)) =>
        \/ ENABLED (\E o \in Mains : CallStep(o))
        \/ ENABLED (\E k \in Keys : KeyStep(k))
        \/ ENABLED (\E k \in ExecuteDue : ExecuteCall(k))

\* A Pause never waits on a paused run: the loop in its inner pause loop
\* takes whatever is in the slot, a Pause can send whenever the slot is
\* empty, and once it has sent it reads its reply without waiting.
PauseGetsThrough ==
    /\ \A m \in Mains : pc[m] = "paused" /\ Full(PAUSECHANNEL) => ENABLED Paused(m)
    /\ \A k \in Keys :
          /\ kpc[k] = "idle" /\ ~kpaused[k] /\ ~Full(PAUSECHANNEL) => ENABLED PauseCall(k)
          /\ kpc[k] = "turns" => ENABLED ReadTurns(k)
          /\ kpc[k] = "world" => ENABLED ReadWorld(k)

\* C17 as the code has it: a second Pause issued while the run is already
\* paused does not block.  The loop emptied the slot when it took the first
\* signal, so the second Pause sends and returns; the paused loop receives
\* the second signal, discards it and stays paused.
C17_SecondPauseReturns ==
    /\ []PauseGetsThrough
    /\ [][\A m \in Mains :
            /\ pc[m] = "paused"
            /\ PAUSECHANNEL = <<TRUE>>
            /\ PAUSECHANNEL' = <<>>
            => pc'[m] = "paused"]_vars

\* C17 witness: with the run paused, a second Pause was issued, has returned,
\* and the loop has discarded its signal and is still paused.
C17_Witness ==
    \E j, k \in Keys :
        /\ j # k
        /\ kpaused[j]
        /\ kreply[k].op = "Pause" /\ callPhase[k] = "paused" /\ kpc[k] = "idle"
        /\ pc[1] = "paused"
        /\ PAUSECHANNEL = <<>>

\* C17 as stated: a second Pause issued while the run is already paused
\* blocks forever, so no such call is ever found to have returned.
C17_SecondPauseBlocks ==
    \A k \in Keys :
        kreply[k].op = "Pause" /\ callPhase[k] = "paused" => kpc[k] # "idle"

\* The Progress pairs controller 1's run can show: {0,0}, or a turn number
\* with the alive count of a generation the run can have computed by that
\* turn (a turn spent on a pause signal computes none).
ProgressPairs ==
    {<<0, 0>>} \cup
    {<<tg[1], getNumAliveCells(p[1], Generations(input[1], p[1], tg[2]))>> :
        tg \in {c \in (1..p[1].Turns) \X (1..p[1].Turns) : c[2] <= c[1]}}

\* C18: every reply of GetAliveCells is a consistent Progress pair, the alive
\* count of the grid as it stood when completedTurns took the returned
\* value: never a reset 0 paired with a non-zero counterpart.
C18_ConsistentProgress ==
    \A k \in Keys :
        kpc[k] = "idle" /\ kreply[k].op = "GetAliveCells" /\ input[1] # <<>> =>
            <<kreply[k].turns, kreply[k].alive>> \in ProgressPairs

\* No distributor is executing and no call is in progress, a blocked one
\* included: every controller is yet to call, between IsAlreadyRunning and
\* the call that follows it, or has its grid.
AtRest ==
    /\ \A m \in Mains : pc[m] \in {"idle", "iar_ret", "started", "continued"}
    /\ \A k \in Keys : kpc[k] = "idle"

\* C19: signals do not outlive the run they were sent to: whenever no loop is
\* executing and no call is in progress, the pause, cancel,
\* cancellation-complete and finished channels are all empty.
C19_NoStaleSignals ==
    AtRest =>
        /\ PAUSECHANNEL = <<>>
        /\ CANCELCHANNEL = <<>>
        /\ DONECANCELINGCHANNEL = <<>>
        /\ FINISHEDCHANNEL = <<>>

\* C20: 0 <= completedTurns <= the turn limit of the current RunParameters in
\* every reachable state.
C20_TurnsWithinLimit == 0 <= COMPLETEDTURNS /\ COMPLETEDTURNS <= PARAMS.Turns

====
